---- MODULE Spec2Model ----
(***************************************************************************)
(* A model of quic-p2p's utility layer (src/utils.rs): the communication   *)
(* failure handler acting on the shared context, the connect terminator    *)
(* channel, the bincode persistence pair, the binary formatter and the     *)
(* project directory resolver.  Each component has its own specification;  *)
(* the variables of the components a specification does not exercise stay  *)
(* at their quiescent values.                                              *)
(***************************************************************************)
EXTENDS Integers, Sequences, FiniteSets, TLC

VARIABLES
    \* ---- shared context (handle_communication_err) ----
    connections,    \* c.connections: peer address -> connection handle
    event_rx_alive, \* whether the receiver of c.event_tx still exists
    event_queue,    \* events sent on c.event_tx and not yet received
    submitted,      \* every event handed to c.event_tx.send, in order
    calls,          \* the handler calls, in the order they entered ctx_mut
    lock,           \* the task inside ctx_mut, or None
    serial,         \* the registry of the serial execution (operations applied at ctx_mut entry)
    pc,             \* per task: where it is in its current operation
    args,           \* per task: the arguments of its handler call
    snap,           \* per task: what it saw of the context inside ctx_mut
    ret,            \* per task: how its last handler call ended
    \* ---- connect terminators ----
    term,           \* per connection attempt: its terminator channel
    \* ---- persistence ----
    disk,           \* per path: the bytes of the file, or Absent
    meta,           \* per path: how the file came to hold its bytes
    io,             \* the last read_from_disk / write_to_disk call on the files as they are
    \* ---- formatter ----
    data,           \* the argument of bin_data_format
    out,            \* its result, or None before the call
    \* ---- project directory ----
    target,         \* the build target
    os_dirs,        \* whether the OS lookup of the project directories resolves
    dir_log         \* the results of the project_dir calls so far

ctxVars == <<connections, event_rx_alive, event_queue, submitted, calls,
             lock, serial, pc, args, snap, ret>>

termVars == <<term>>
diskVars == <<disk, meta, io>>
fmtVars == <<data, out>>
dirVars == <<target, os_dirs, dir_log>>

vars == <<ctxVars, termVars, diskVars, fmtVars, dirVars>>

None == "None"

----------------------------------------------------------------------------
(* Shared context and handle_communication_err                             *)

Tasks == {"t1", "t2"}
Addrs == {"a1", "a2"}
Handles == {"h1", "h2"}
Payloads == {"m1"}
OptPayload == Payloads \cup {None}

\* The total number of handler calls a behaviour makes.
MaxCalls == 3

EmptyRegistry == [a \in {} |-> None]

Registries == UNION {[D -> Handles] : D \in SUBSET Addrs}

\* A removal that empties the registry.
RemoveEntryClear(reg, peer_addr) == EmptyRegistry

\* HashMap::remove as the handler uses it: the entry of peer_addr goes, the
\* returned Option is discarded.
RemoveEntry(reg, peer_addr) ==
    [b \in (DOMAIN reg) \ {peer_addr} |-> reg[b]]

\* HashMap::insert.
InsertEntry(reg, peer_addr, h) ==
    [b \in (DOMAIN reg) \cup {peer_addr} |-> IF b = peer_addr THEN h ELSE reg[b]]

UnsentUserMessage(peer_addr, m) ==
    [type |-> "UnsentUserMessage", peer_addr |-> peer_addr, msg |-> m]

\* A handler that sends an event for every call.
SendsEventAlways(unsent_user_msg) == TRUE

\* `if let Some(m) = unsent_user_msg`: whether the handler sends an event.
SendsEvent(unsent_user_msg) == unsent_user_msg # None

\* Sender::send on the event channel: the event is queued while the receiver
\* exists, and handed back in an error once it is gone.
ChannelSend(q, alive, ev) ==
    IF alive THEN [queue |-> Append(q, ev), res |-> "Ok"]
             ELSE [queue |-> q, res |-> "SendError"]

\* A handler that unwraps the result of the send.
SendResultUnwrapped(res) == IF res = "Ok" THEN "returned" ELSE "panicked"

\* `let _ = ...send(..)`: the result of the send is discarded.
SendResultHandled(res) == "returned"

\* A handler that gives the context up after the removal and takes it again
\* for the send.
CtxHolderSplit(t) == None

\* The holder of the context between the removal and the send: both are in
\* the one closure given to ctx_mut.
CtxHolderAfterRemove(t) == t

NoSnap == [pre |-> None, mid |-> None, sub |-> None]
NoRet == [pre |-> None, post |-> None, peer_addr |-> None, msg |-> None,
          rx |-> None, send |-> None, queued |-> None, outcome |-> None]
NoArgs == [peer_addr |-> None, msg |-> None]

InitCtx ==
    /\ connections \in Registries
    /\ event_rx_alive = TRUE
    /\ event_queue = <<>>
    /\ submitted = <<>>
    /\ calls = <<>>
    /\ lock = None
    /\ serial = connections
    /\ pc = [t \in Tasks |-> "idle"]
    /\ args = [t \in Tasks |-> NoArgs]
    /\ snap = [t \in Tasks |-> NoSnap]
    /\ ret = [t \in Tasks |-> NoRet]

\* The call: the arguments are bound and the debug! line is written.
HandlerCall(t, peer_addr, unsent_user_msg) ==
    /\ pc[t] = "idle"
    /\ Len(calls) + Cardinality({u \in Tasks : pc[u] = "h_ctx"}) < MaxCalls
    /\ pc' = [pc EXCEPT ![t] = "h_ctx"]
    /\ args' = [args EXCEPT ![t] = [peer_addr |-> peer_addr, msg |-> unsent_user_msg]]
    /\ ret' = [ret EXCEPT ![t] = NoRet]
    /\ UNCHANGED <<termVars, diskVars, fmtVars, dirVars,
                   connections, event_rx_alive, event_queue, submitted, calls,
                   lock, serial, snap>>

\* ctx_mut gives its closure exclusive access to the context: it runs only
\* while no other closure does.
CtxFree == lock = None

\* ctx_mut(|c| ...): the task gets the context to itself.
HandlerEnter(t) ==
    /\ pc[t] = "h_ctx"
    /\ CtxFree
    /\ lock' = t
    /\ pc' = [pc EXCEPT ![t] = "h_remove"]
    /\ calls' = Append(calls, args[t])
    /\ serial' = [b \in (DOMAIN serial) \ {args[t].peer_addr} |-> serial[b]]
    /\ snap' = [snap EXCEPT ![t] = [pre |-> connections, mid |-> None, sub |-> submitted]]
    /\ UNCHANGED <<termVars, diskVars, fmtVars, dirVars,
                   connections, event_rx_alive, event_queue, submitted, args, ret>>

\* let _ = c.connections.remove(&peer_addr);
HandlerRemove(t) ==
    /\ pc[t] = "h_remove"
    /\ connections' = RemoveEntry(connections, args[t].peer_addr)
    /\ snap' = [snap EXCEPT ![t].mid = connections']
    /\ lock' = CtxHolderAfterRemove(t)
    /\ pc' = [pc EXCEPT ![t] = "h_send"]
    /\ UNCHANGED <<termVars, diskVars, fmtVars, dirVars,
                   event_rx_alive, event_queue, submitted, calls, serial, args, ret>>

\* if let Some(m) = unsent_user_msg { let _ = c.event_tx.send(..); }  and the
\* end of the closure.
HandlerSend(t) ==
    /\ pc[t] = "h_send"
    /\ lock = CtxHolderAfterRemove(t)
    /\ LET a == args[t].peer_addr
           m == args[t].msg
           ev == UnsentUserMessage(a, m)
           sent == ChannelSend(event_queue, event_rx_alive, ev)
       IN  IF SendsEvent(m)
           THEN /\ submitted' = Append(submitted, ev)
                /\ event_queue' = sent.queue
                /\ ret' = [ret EXCEPT ![t] =
                             [pre |-> snap[t].pre, post |-> connections,
                              peer_addr |-> a, msg |-> m,
                              rx |-> event_rx_alive, send |-> sent.res,
                              queued |-> Len(sent.queue) - Len(event_queue),
                              outcome |-> SendResultHandled(sent.res)]]
           ELSE /\ UNCHANGED <<submitted, event_queue>>
                /\ ret' = [ret EXCEPT ![t] =
                             [pre |-> snap[t].pre, post |-> connections,
                              peer_addr |-> a, msg |-> m,
                              rx |-> event_rx_alive, send |-> None,
                              queued |-> 0,
                              outcome |-> "returned"]]
    /\ lock' = None
    /\ pc' = [pc EXCEPT ![t] = "h_done"]
    /\ snap' = [snap EXCEPT ![t] = NoSnap]
    /\ UNCHANGED <<termVars, diskVars, fmtVars, dirVars,
                   connections, event_rx_alive, calls, serial, args>>

\* The caller goes on after the handler has returned.
HandlerReturn(t) ==
    /\ pc[t] = "h_done"
    /\ pc' = [pc EXCEPT ![t] = "idle"]
    /\ args' = [args EXCEPT ![t] = NoArgs]
    /\ ret' = [ret EXCEPT ![t] = NoRet]
    /\ UNCHANGED <<termVars, diskVars, fmtVars, dirVars,
                   connections, event_rx_alive, event_queue, submitted, calls,
                   lock, serial, snap>>

\* Another mutation of the shared context: a new connection is registered,
\* under the same exclusive access.
InsertConnection(t, peer_addr, h) ==
    /\ pc[t] = "idle"
    /\ CtxFree
    /\ connections' = InsertEntry(connections, peer_addr, h)
    /\ serial' = InsertEntry(serial, peer_addr, h)
    /\ UNCHANGED <<termVars, diskVars, fmtVars, dirVars,
                   event_rx_alive, event_queue, submitted, calls, lock, pc,
                   args, snap, ret>>

\* The upstream consumer takes the next event.
RecvEvent ==
    /\ event_rx_alive
    /\ event_queue # <<>>
    /\ event_queue' = Tail(event_queue)
    /\ UNCHANGED <<termVars, diskVars, fmtVars, dirVars,
                   connections, event_rx_alive, submitted, calls, lock, serial,
                   pc, args, snap, ret>>

\* The upstream consumer drops its receiver.
DropReceiver ==
    /\ event_rx_alive
    /\ event_rx_alive' = FALSE
    /\ event_queue' = <<>>
    /\ UNCHANGED <<termVars, diskVars, fmtVars, dirVars,
                   connections, submitted, calls, lock, serial, pc, args, snap, ret>>

NextHandler ==
    \/ \E t \in Tasks, a \in Addrs, m \in OptPayload : HandlerCall(t, a, m)
    \/ \E t \in Tasks : HandlerEnter(t)
    \/ \E t \in Tasks : HandlerRemove(t)
    \/ \E t \in Tasks : HandlerSend(t)
    \/ \E t \in Tasks : HandlerReturn(t)
    \/ \E t \in Tasks, a \in Addrs, h \in Handles : InsertConnection(t, a, h)
    \/ RecvEvent
    \/ DropReceiver

\* The context of a program that makes no use of it.
CtxOff ==
    /\ connections = EmptyRegistry
    /\ event_rx_alive = TRUE
    /\ event_queue = <<>>
    /\ submitted = <<>>
    /\ calls = <<>>
    /\ lock = None
    /\ serial = EmptyRegistry
    /\ pc = [t \in Tasks |-> "idle"]
    /\ args = [t \in Tasks |-> NoArgs]
    /\ snap = [t \in Tasks |-> NoSnap]
    /\ ret = [t \in Tasks |-> NoRet]

----------------------------------------------------------------------------
(* connect_terminator: tokio::sync::mpsc::channel(1) of unit signals       *)

Attempts == {"c1", "c2"}

\* The number of try_send calls made on one terminator.
MaxSends == 2

\* channel(1)
TerminatorCapacity == 1

NoTerm == [made |-> FALSE, buf |-> 0, rx_open |-> FALSE, tried |-> 0,
           accepted |-> 0, observed |-> 0, last |-> None, pend |-> 0,
           resent |-> FALSE]

InitTerm == term = [c \in Attempts |-> NoTerm]

\* A channel that takes every signal while its receiver exists.
TrySendUnbounded(n, open) == IF ~open THEN "Closed" ELSE "Ok"

\* Sender::try_send on the bounded channel: refused once the receiver is gone
\* and while the buffer is at capacity, queued otherwise.  It never waits.
TrySendOutcome(n, open) ==
    IF ~open THEN "Closed"
    ELSE IF n >= TerminatorCapacity THEN "Full"
    ELSE "Ok"

\* connect_terminator(): a fresh sender/receiver pair, nothing buffered.
ConnectTerminator(c) ==
    /\ ~term[c].made
    /\ term' = [term EXCEPT ![c] = [NoTerm EXCEPT !.made = TRUE, !.rx_open = TRUE]]
    /\ UNCHANGED <<ctxVars, diskVars, fmtVars, dirVars>>

\* The holder of the sender signals termination.
TrySend(c) ==
    /\ term[c].made
    /\ term[c].tried < MaxSends
    /\ LET r == TrySendOutcome(term[c].buf, term[c].rx_open)
           n == IF r = "Ok" THEN 1 ELSE 0
       IN  term' = [term EXCEPT ![c].tried = @ + 1,
                                ![c].last = r,
                                ![c].pend = term[c].buf,
                                ![c].buf = @ + n,
                                ![c].accepted = @ + n,
                                ![c].resent = @ \/ (r = "Ok" /\ term[c].observed > 0)]
    /\ UNCHANGED <<ctxVars, diskVars, fmtVars, dirVars>>

\* The connection attempt polls its receiver and finds a signal.
PollRecv(c) ==
    /\ term[c].made
    /\ term[c].rx_open
    /\ term[c].buf > 0
    /\ term' = [term EXCEPT ![c].buf = @ - 1, ![c].observed = @ + 1]
    /\ UNCHANGED <<ctxVars, diskVars, fmtVars, dirVars>>

\* The connection attempt ends and drops its receiver.
DropTerminatorReceiver(c) ==
    /\ term[c].made
    /\ term[c].rx_open
    /\ term' = [term EXCEPT ![c].rx_open = FALSE, ![c].buf = 0]
    /\ UNCHANGED <<ctxVars, diskVars, fmtVars, dirVars>>

NextTerminator ==
    \/ \E c \in Attempts : ConnectTerminator(c)
    \/ \E c \in Attempts : TrySend(c)
    \/ \E c \in Attempts : PollRecv(c)
    \/ \E c \in Attempts : DropTerminatorReceiver(c)

----------------------------------------------------------------------------
(* read_from_disk / write_to_disk: bincode over buffered files             *)

Paths == {"p1"}
\* A file: whether it exists, and its bytes.
Absent == [exists |-> FALSE, bytes |-> <<>>]
File(bs) == [exists |-> TRUE, bytes |-> bs]

\* The longest Vec<u8> persisted.
MaxVecLen == 2

VecBytes == {0, 7}
U16Samples == {258, 65535}

\* The capacity of BufWriter::new.
BufCapacity == 8192

SeqsUpTo(S, n) == UNION {[1..k -> S] : k \in 0..n}

\* The persisted records: a Vec<u8> or a u16.
Values ==
    {[shape |-> "vec", v |-> s] : s \in SeqsUpTo(VecBytes, MaxVecLen)}
        \cup {[shape |-> "u16", v |-> n] : n \in U16Samples}

Shapes == {"vec", "u16"}

RECURSIVE IntLE(_, _)
\* bincode's fixed-width integers: little endian.
IntLE(n, width) ==
    IF width = 0 THEN <<>> ELSE <<n % 256>> \o IntLE(n \div 256, width - 1)

RECURSIVE FromLE(_)
FromLE(bs) == IF bs = <<>> THEN 0 ELSE bs[1] + 256 * FromLE(Tail(bs))

\* An encoder that writes the length of a Vec<u8> as a u32.
EncodeNarrowLen(val) ==
    IF val.shape = "vec" THEN IntLE(Len(val.v), 4) \o val.v
    ELSE IntLE(val.v, 2)

\* bincode::serialize_into: a u16 is its 2 bytes, a Vec<u8> its length as a
\* u64 and then its bytes.
Encode(val) ==
    IF val.shape = "vec" THEN IntLE(Len(val.v), 8) \o val.v
    ELSE IntLE(val.v, 2)

OkResult(v) == [ok |-> TRUE, val |-> v, err |-> None, kind |-> None]
ErrResult(kind) == [ok |-> FALSE, val |-> None, err |-> "bincode::Error", kind |-> kind]

\* A decoder that makes do with the bytes there are.
DecodeLenient(shape, bs) ==
    LET have(n) == IF Len(bs) < n THEN Len(bs) ELSE n IN
    IF shape = "u16"
    THEN OkResult([shape |-> "u16", v |-> FromLE(SubSeq(bs, 1, have(2)))])
    ELSE IF Len(bs) < 8 THEN OkResult([shape |-> "vec", v |-> <<>>])
    ELSE OkResult([shape |-> "vec",
                   v |-> SubSeq(bs, 9, have(8 + FromLE(SubSeq(bs, 1, 8))))])

\* bincode::deserialize_from: reads exactly the bytes of one value of the
\* expected shape; running out of bytes is an error, bytes left over are not
\* looked at.
Decode(shape, bs) ==
    IF shape = "u16"
    THEN IF Len(bs) < 2 THEN ErrResult("Io(UnexpectedEof)")
         ELSE OkResult([shape |-> "u16", v |-> FromLE(SubSeq(bs, 1, 2))])
    ELSE IF Len(bs) < 8 THEN ErrResult("Io(UnexpectedEof)")
         ELSE LET n == FromLE(SubSeq(bs, 1, 8))
              IN  IF Len(bs) < 8 + n THEN ErrResult("Io(UnexpectedEof)")
                  ELSE OkResult([shape |-> "vec", v |-> SubSeq(bs, 9, 8 + n)])

\* The bytes that have left the BufWriter when serialize_into returns: the
\* buffer is written out only as it fills, so an encoding shorter than the
\* buffer is still entirely in it.
FlushedBySerialize(enc) == (Len(enc) \div BufCapacity) * BufCapacity

\* File::create(..).map(BufWriter::new).and_then(serialize_into)?; Ok(()):
\* a failure to create, or of a write made while serializing, is returned;
\* the rest of the buffer is written when the BufWriter is dropped at the end
\* of the closure, and a failure of that write is not reported.
WriteResult(enc, fault, k) ==
    IF fault = "create" THEN ErrResult("Io(create)")
    ELSE IF fault = "write" /\ k < FlushedBySerialize(enc) THEN ErrResult("Io(write)")
    ELSE OkResult(None)

\* The file after the call: untouched when it could not be created, else
\* truncated and holding the bytes written before the failing write, if any.
FileAfterWrite(old, enc, fault, k) ==
    IF fault = "create" THEN old
    ELSE IF fault = "write" THEN File(SubSeq(enc, 1, k))
    ELSE File(enc)

NoMeta == [state |-> "absent", value |-> None, shrunk |-> FALSE]
NoIo == [op |-> None, path |-> None, shape |-> None, value |-> None,
         fault |-> None, result |-> None, before |-> NoMeta]

InitDisk ==
    /\ disk = [p \in Paths |-> Absent]
    /\ meta = [p \in Paths |-> NoMeta]
    /\ io = NoIo

FileLen(f) == Len(f.bytes)

\* write_to_disk(file_path, s).  fault: what the filesystem refuses during
\* the call; k: the bytes it took before refusing a write.
WriteToDisk(p, val, fault, k) ==
    LET enc == Encode(val)
        res == WriteResult(enc, fault, k)
    IN  /\ disk' = [disk EXCEPT ![p] = FileAfterWrite(disk[p], enc, fault, k)]
        /\ meta' = [meta EXCEPT ![p] =
                      IF fault = "create" THEN @
                      ELSE [state |-> IF fault = "none" THEN "valid" ELSE "damaged",
                            value |-> val,
                            shrunk |-> FileLen(disk[p]) > Len(enc)]]
        /\ io' = [op |-> "write", path |-> p, shape |-> val.shape, value |-> val,
                  fault |-> fault, result |-> res, before |-> NoMeta]
        /\ UNCHANGED <<ctxVars, termVars, fmtVars, dirVars>>

\* read_from_disk::<D>(file_path): File::open, then deserialize_from.
ReadResult(file, shape, fault) ==
    IF ~file.exists THEN ErrResult("Io(NotFound)")
    ELSE IF fault = "open" THEN ErrResult("Io(open)")
    ELSE Decode(shape, file.bytes)

ReadFromDisk(p, shape, fault) ==
    /\ io' = [op |-> "read", path |-> p, shape |-> shape, value |-> None,
              fault |-> fault, result |-> ReadResult(disk[p], shape, fault),
              before |-> meta[p]]
    /\ UNCHANGED <<disk, meta>>
    /\ UNCHANGED <<ctxVars, termVars, fmtVars, dirVars>>

\* Something outside the program cuts k bytes off the end of the file.
TruncateFile(p, k) ==
    /\ disk[p].exists
    /\ k \in 1..Len(disk[p].bytes)
    /\ disk' = [disk EXCEPT ![p].bytes = SubSeq(@, 1, Len(@) - k)]
    /\ meta' = [meta EXCEPT ![p].state =
                  IF @ \in {"valid", "truncated"} THEN "truncated" ELSE "damaged"]
    /\ io' = NoIo
    /\ UNCHANGED <<ctxVars, termVars, fmtVars, dirVars>>

MaxEncLen == 8 + MaxVecLen

NextDisk ==
    \/ \E p \in Paths, val \in Values, fault \in {"none", "create", "write"} :
        \E k \in (IF fault = "write" THEN 0..(Len(Encode(val)) - 1) ELSE {0}) :
            WriteToDisk(p, val, fault, k)
    \/ \E p \in Paths, shape \in Shapes, fault \in {"none", "open"} :
        ReadFromDisk(p, shape, fault)
    \/ \E p \in Paths, k \in 1..MaxEncLen : TruncateFile(p, k)

----------------------------------------------------------------------------
(* bin_data_format                                                         *)

\* The longest input formatted.
MaxDataLen == 9

FmtBytes == {0, 10, 255}
FmtExample == <<1, 2, 3, 4, 5, 6, 7, 8, 9, 10>>
FmtInputs == SeqsUpTo(FmtBytes, MaxDataLen) \cup {FmtExample}

HexDigit == <<"0", "1", "2", "3", "4", "5", "6", "7",
              "8", "9", "a", "b", "c", "d", "e", "f">>

\* {:02x}
Hex2(b) == HexDigit[(b \div 16) + 1] \o HexDigit[(b % 16) + 1]

RECURSIVE Dec(_)
\* {:?} of a u8: decimal.
Dec(n) == IF n < 10 THEN HexDigit[n + 1] ELSE Dec(n \div 10) \o HexDigit[(n % 10) + 1]

RECURSIVE DebugItems(_)
DebugItems(d) ==
    IF d = <<>> THEN ""
    ELSE IF Len(d) = 1 THEN Dec(d[1])
    ELSE Dec(d[1]) \o ", " \o DebugItems(Tail(d))

\* {:?} of a &[u8].
DebugList(d) == "[" \o DebugItems(d) \o "]"

\* "[ {:02x} {:02x} {:02x} {:02x}..{:02x} {:02x} {:02x} {:02x} ]" of
\* data[0..4] and data[len-4..len].
HexForm(d, len) ==
    "[ " \o Hex2(d[1]) \o " " \o Hex2(d[2]) \o " " \o Hex2(d[3]) \o " " \o Hex2(d[4])
         \o ".."
         \o Hex2(d[len - 3]) \o " " \o Hex2(d[len - 2]) \o " " \o Hex2(d[len - 1])
         \o " " \o Hex2(d[len]) \o " ]"

\* A formatter whose short form still covers 8 bytes.
bin_data_format_le8(d) ==
    IF Len(d) <= 8 THEN "[ " \o DebugList(d) \o " ]" ELSE HexForm(d, Len(d))

\* if len < 8 { format!("[ {:?} ]", data) } else { the hex form }
bin_data_format(d) ==
    IF Len(d) < 8 THEN "[ " \o DebugList(d) \o " ]" ELSE HexForm(d, Len(d))

InitFormat ==
    /\ data \in FmtInputs
    /\ out = None

FmtOff ==
    /\ data = <<>>
    /\ out = None

Format ==
    /\ out = None
    /\ out' = bin_data_format(data)
    /\ UNCHANGED data
    /\ UNCHANGED <<ctxVars, termVars, diskVars, dirVars>>

NextFormat == Format

----------------------------------------------------------------------------
(* project_dir                                                             *)

\* The number of project_dir calls of one run.
MaxDirCalls == 3

Targets ==
    {[family |-> "unix", os |-> "linux"],
     [family |-> "unix", os |-> "macos"],
     [family |-> "unix", os |-> "android"],
     [family |-> "unix", os |-> "androideabi"],
     [family |-> "unix", os |-> "ios"],
     [family |-> "windows", os |-> "windows"],
     [family |-> "none", os |-> "unknown"]}

\* A cfg that forgets to exclude the mobile targets.
DesktopCfgNoExclusion(t) == t.family = "unix" \/ t.family = "windows"

\* cfg(any(all(unix, not(any(target_os = "android", "androideabi", "ios"))), windows))
DesktopCfg(t) ==
    \/ (t.family = "unix" /\ t.os \notin {"android", "androideabi", "ios"})
    \/ t.family = "windows"

\* The two definitions of project_dir, one of which the build compiles.
project_dir(t, resolves) ==
    IF DesktopCfg(t)
    THEN IF resolves THEN [ok |-> TRUE, val |-> "Dirs::Desktop", err |-> None]
         ELSE [ok |-> FALSE, val |-> None, err |-> "Io(NotFound)"]
    ELSE [ok |-> FALSE, val |-> None, err |-> "Configuration"]

InitDir ==
    /\ target \in Targets
    /\ os_dirs \in BOOLEAN
    /\ dir_log = <<>>

DirOff ==
    /\ target = [family |-> "unix", os |-> "linux"]
    /\ os_dirs = TRUE
    /\ dir_log = <<>>

ProjectDir ==
    /\ Len(dir_log) < MaxDirCalls
    /\ dir_log' = Append(dir_log, [resolves |-> os_dirs, res |-> project_dir(target, os_dirs)])
    /\ UNCHANGED <<target, os_dirs>>
    /\ UNCHANGED <<ctxVars, termVars, diskVars, fmtVars>>

\* The state of the filesystem and environment changes between calls.
EnvChange ==
    /\ os_dirs' = ~os_dirs
    /\ UNCHANGED <<target, dir_log>>
    /\ UNCHANGED <<ctxVars, termVars, diskVars, fmtVars>>

NextDir == ProjectDir \/ EnvChange

----------------------------------------------------------------------------
(* Specifications, one per component                                       *)

InitHandler == InitCtx /\ InitTerm /\ InitDisk /\ FmtOff /\ DirOff
SpecHandler == InitHandler /\ [][NextHandler]_vars

InitTerminator == CtxOff /\ InitTerm /\ InitDisk /\ FmtOff /\ DirOff
SpecTerminator == InitTerminator /\ [][NextTerminator]_vars

InitPersistence == CtxOff /\ InitTerm /\ InitDisk /\ FmtOff /\ DirOff
SpecDisk == InitPersistence /\ [][NextDisk]_vars

InitFormatter == CtxOff /\ InitTerm /\ InitDisk /\ InitFormat /\ DirOff
SpecFormat == InitFormatter /\ [][NextFormat]_vars

InitResolver == CtxOff /\ InitTerm /\ InitDisk /\ FmtOff /\ InitDir
SpecDir == InitResolver /\ [][NextDir]_vars

----------------------------------------------------------------------------
(* Properties of handle_communication_err                                  *)

\* C1: when a handler call has returned, the registry at the end of its
\* ctx_mut closure is the registry at its start without the entry of
\* peer_addr, every other entry unchanged; for an absent peer it is the same
\* registry.  This holds with and without a payload and a live receiver.
RegistryAfterHandler ==
    \A t \in Tasks :
        pc[t] = "h_done" =>
            LET r == ret[t] IN
            /\ DOMAIN r.post = (DOMAIN r.pre) \ {r.peer_addr}
            /\ \A b \in DOMAIN r.post : r.post[b] = r.pre[b]
            /\ (r.peer_addr \notin DOMAIN r.pre => r.post = r.pre)

\* One call has removed a present peer and left another entry alone, while
\* another call, for an absent peer, with a payload and no receiver, is done.
RegistryAfterHandlerWitness ==
    \E t, u \in Tasks :
        /\ pc[t] = "h_done" /\ pc[u] = "h_done"
        /\ ret[t].peer_addr \in DOMAIN ret[t].pre
        /\ DOMAIN ret[t].post # {}
        /\ ret[u].peer_addr \notin DOMAIN ret[u].pre
        /\ ret[u].msg # None
        /\ ret[u].rx = FALSE

EventsOfCalls(cs) ==
    LET some == SelectSeq(cs, LAMBDA c : c.msg # None)
    IN  [i \in 1..Len(some) |->
            [type |-> "UnsentUserMessage", peer_addr |-> some[i].peer_addr,
             msg |-> some[i].msg]]

CompletedCalls == IF lock = None THEN calls ELSE SubSeq(calls, 1, Len(calls) - 1)

\* C2: the events submitted to the event channel are, in call order, exactly
\* the (peer_addr, payload) pairs of the completed calls that supplied a
\* payload: one event per such call, none for a call without a payload,
\* whether or not the peer was registered.
SubmittedMatchesCalls == submitted = EventsOfCalls(CompletedCalls)

\* Three calls are complete, one of them without a payload, and one that
\* submitted its event was for a peer that was not registered.
SubmittedMatchesCallsWitness ==
    /\ lock = None
    /\ Len(calls) = 3
    /\ Len(submitted) = 2
    /\ \E t \in Tasks :
        /\ pc[t] = "h_done"
        /\ ret[t].msg # None
        /\ ret[t].peer_addr \notin DOMAIN ret[t].pre

\* C3: the handler always returns normally; with a payload and no receiver
\* left the send fails, nothing is queued, and the peer's entry is gone.
HandlerAbsorbsSendFailure ==
    \A t \in Tasks :
        pc[t] = "h_done" =>
            LET r == ret[t] IN
            /\ r.outcome = "returned"
            /\ (r.msg # None /\ r.rx = FALSE) =>
                   /\ r.send = "SendError"
                   /\ r.queued = 0
                   /\ r.peer_addr \notin DOMAIN r.post

\* A call for a registered peer, with a payload, found the receiver gone.
HandlerAbsorbsSendFailureWitness ==
    \E t \in Tasks :
        /\ pc[t] = "h_done"
        /\ ret[t].msg # None
        /\ ret[t].rx = FALSE
        /\ ret[t].peer_addr \in DOMAIN ret[t].pre

\* C4: the removal and the optional send of a handler call are one critical
\* section: the task inside holds the context, nothing else changes the
\* registry or the submitted events between its entry, its removal and its
\* send, and whenever the context is free the registry is that of the
\* serial execution of the operations in the order they entered.
CriticalSectionExclusive ==
    /\ \A t \in Tasks : pc[t] \in {"h_remove", "h_send"} => lock = t
    /\ \A t \in Tasks :
        pc[t] = "h_remove" =>
            connections = snap[t].pre /\ submitted = snap[t].sub
    /\ \A t \in Tasks :
        pc[t] = "h_send" =>
            connections = snap[t].mid /\ submitted = snap[t].sub
    /\ (lock = None => connections = serial)

\* One task is between its removal and its send while the other waits to
\* enter with a call for the same peer, after a preceding event submission.
CriticalSectionExclusiveWitness ==
    \E t, u \in Tasks :
        /\ pc[t] = "h_send" /\ pc[u] = "h_ctx"
        /\ args[t].peer_addr = args[u].peer_addr
        /\ args[t].peer_addr \in DOMAIN snap[t].pre
        /\ submitted # <<>>

----------------------------------------------------------------------------
(* Properties of connect_terminator                                        *)

----------------------------------------------------------------------------
(* Properties of read_from_disk and write_to_disk                          *)

\* C6: reading, in the shape written, a path that write_to_disk has written
\* without any refusal from the filesystem yields the value written, also
\* when the path held a longer file before.
RoundTrip ==
    (/\ io.op = "read"
     /\ io.fault = "none"
     /\ io.before.state = "valid"
     /\ io.shape = io.before.value.shape)
        => (io.result.ok /\ io.result.val = io.before.value)

\* A one-byte vector was written over a longer file and read back.
RoundTripWitness ==
    /\ io.op = "read"
    /\ io.fault = "none"
    /\ io.before.state = "valid"
    /\ io.before.shrunk
    /\ io.shape = "vec"
    /\ io.before.value.shape = "vec"
    /\ Len(io.before.value.v) = 1
    /\ io.result.ok

\* C7: reading, in the shape written, a file that was validly written and
\* then cut short by at least one byte fails with the codec's error and
\* yields no value.
TruncatedReadFails ==
    (/\ io.op = "read"
     /\ io.before.state = "truncated"
     /\ io.shape = io.before.value.shape)
        => (~io.result.ok /\ io.result.err = "bincode::Error" /\ io.result.val = None)

\* A vector file cut inside its payload, its length prefix intact, was read.
TruncatedReadFailsWitness ==
    /\ io.op = "read"
    /\ io.fault = "none"
    /\ io.before.state = "truncated"
    /\ io.shape = "vec"
    /\ io.before.value.shape = "vec"
    /\ Len(disk[io.path].bytes) >= 8
    /\ ~io.result.ok

\* C8: write_to_disk returns Ok exactly when nothing was refused, and then
\* the file holds the encoded value and nothing else.
WriteOkMeansWritten ==
    io.op = "write" =>
        /\ (io.result.ok <=> io.fault = "none")
        /\ (io.result.ok => disk[io.path] = File(Encode(io.value)))

----------------------------------------------------------------------------
(* Properties of bin_data_format                                           *)

\* C9: a result is always produced; under 8 bytes it is the debug form of
\* the whole list, from 8 bytes on it is the first four and the last four
\* bytes as two-digit hex with ".." between them, in brackets.
FormatMatchesContract ==
    out # None =>
        LET n == Len(data) IN
        /\ (n < 8 => out = "[ " \o DebugList(data) \o " ]")
        /\ (n >= 8 =>
              /\ out = "[ " \o Hex2(data[1]) \o " " \o Hex2(data[2]) \o " "
                            \o Hex2(data[3]) \o " " \o Hex2(data[4]) \o ".."
                            \o Hex2(data[n - 3]) \o " " \o Hex2(data[n - 2]) \o " "
                            \o Hex2(data[n - 1]) \o " " \o Hex2(data[n]) \o " ]"
              /\ Len(out) = 28)
        /\ (data = <<>> => out = "[ [] ]")
        /\ (data = <<0, 10, 255, 0, 10, 255, 0>>
                => out = "[ [0, 10, 255, 0, 10, 255, 0] ]")
        /\ (data = <<0, 10, 255, 0, 10, 255, 0, 10>>
                => out = "[ 00 0a ff 00..0a ff 00 0a ]")
        /\ (data = FmtExample => out = "[ 01 02 03 04..07 08 09 0a ]")

\* An input of exactly 8 bytes has been formatted.
FormatMatchesContractWitness ==
    /\ data = <<0, 10, 255, 0, 10, 255, 0, 10>>
    /\ out = "[ 00 0a ff 00..0a ff 00 0a ]"

----------------------------------------------------------------------------
(* Properties of project_dir                                               *)

\* C10: on a build for android, androideabi, ios or a target that is neither
\* unix nor windows every call fails with a Configuration error; on every
\* other build a call returns the Desktop directories when the OS lookup
\* resolves and an IO NotFound error when it does not.
ProjectDirPerTarget ==
    \A i \in 1..Len(dir_log) :
        LET e == dir_log[i] IN
        IF target.os \in {"android", "androideabi", "ios", "unknown"}
        THEN ~e.res.ok /\ e.res.err = "Configuration"
        ELSE /\ (e.resolves => e.res.ok /\ e.res.val = "Dirs::Desktop")
             /\ (~e.resolves => ~e.res.ok /\ e.res.err = "Io(NotFound)")

\* An android build has called project_dir with the OS lookup resolving and
\* with it failing.
ProjectDirPerTargetWitness ==
    /\ target.os = "android"
    /\ Len(dir_log) >= 2
    /\ \E i, j \in 1..Len(dir_log) : dir_log[i].resolves /\ ~dir_log[j].resolves

====
